---- MODULE Spec2Model ----
(***************************************************************************)
(* Trivia API (backend/flaskr/__init__.py): the question store, the        *)
(* pagination helper and the request handlers, as a state machine.         *)
(*                                                                         *)
(* Texts are sequences of one-character strings.  JSON values are tagged   *)
(* records: [type |-> "null"], [type |-> "int", val |-> i],                *)
(* [type |-> "string", val |-> <<chars>>], [type |-> "object"].            *)
(***************************************************************************)
EXTENDS Integers, Sequences, FiniteSets, TLC

VARIABLES
    questions,          \* the Question table: id -> row
    next_id,            \* the id the database gives the next inserted row
    categories,         \* the Category table: id -> type
    request,            \* the request being answered
    response,           \* the response it got
    selection,          \* paginate_questions: the sequence handed in
    current_questions,  \* paginate_questions: the page handed back
    pc,                 \* "call" / "return" of paginate_questions, "serve" for the app
    seeded              \* how many rows the database held when the app started

vars == <<questions, next_id, categories, request, response, selection, current_questions, pc, seeded>>

(***************************************************************************)
(* Bounds of the model.                                                    *)
(***************************************************************************)
MaxItems == 23        \* longest sequence handed to paginate_questions alone
MaxPage == 3          \* page numbers range over -MaxPage .. MaxPage
SeedQuestions == 11   \* rows of the seeded database
MaxChanges == 2       \* inserts and deletions in one run
QuizSeed == 3         \* rows of the database the quiz runs start from
NumCategories == 2    \* rows of the Category table

(***************************************************************************)
(* JSON values and texts.                                                  *)
(***************************************************************************)
JNull == [type |-> "null"]
JObject == [type |-> "object"]
JInt(i) == [type |-> "int", val |-> i]
JStr(s) == [type |-> "string", val |-> s]

Min(a, b) == IF a < b THEN a ELSE b
Max(a, b) == IF a > b THEN a ELSE b

Digits == <<"0", "1", "2", "3", "4", "5", "6", "7", "8", "9">>

RECURSIVE NatStr(_)
\* str(n) of a natural number, as the client writes it into the query string.
NatStr(n) == IF n < 10 THEN <<Digits[n + 1]>> ELSE NatStr(n \div 10) \o <<Digits[(n % 10) + 1]>>

IntStr(i) == IF i < 0 THEN <<"-">> \o NatStr(-i) ELSE NatStr(i)

DigitVal(c) == CHOOSE d \in 0..9 : Digits[d + 1] = c

IsDigit(c) == \E d \in 0..9 : Digits[d + 1] = c

RECURSIVE DigitsVal(_, _)
DigitsVal(s, acc) == IF s = <<>> THEN acc ELSE DigitsVal(Tail(s), acc * 10 + DigitVal(Head(s)))

\* int(s) of werkzeug's type=int conversion: an optional sign, then digits;
\* anything else raises ValueError, reported here as [ok |-> FALSE].
ParseInt(s) ==
    LET signed == s # <<>> /\ Head(s) \in {"-", "+"}
        body == IF signed THEN Tail(s) ELSE s
    IN IF body # <<>> /\ \A k \in 1..Len(body) : IsDigit(body[k])
       THEN [ok |-> TRUE,
             val |-> IF signed /\ Head(s) = "-" THEN -DigitsVal(body, 0) ELSE DigitsVal(body, 0)]
       ELSE [ok |-> FALSE]

\* request.args.get(key, default, type=int)
ArgsGetInt(args, key, default) ==
    IF key \notin DOMAIN args THEN default
    ELSE LET r == ParseInt(args[key]) IN IF r.ok THEN r.val ELSE default

\* Python's seq[start:end] (0-based, negative indices count from the end).
PySlice(seq, start, end) ==
    LET n == Len(seq)
        lo == IF start < 0 THEN Max(start + n, 0) ELSE Min(start, n)
        hi == IF end < 0 THEN Max(end + n, 0) ELSE Min(end, n)
    IN IF lo < hi THEN SubSeq(seq, lo + 1, hi) ELSE <<>>

(***************************************************************************)
(* The data access layer (models.py): Question rows and their format().    *)
(***************************************************************************)
Question(id, question, answer, category, difficulty) ==
    [id |-> id, question |-> question, answer |-> answer,
     category |-> category, difficulty |-> difficulty]

Format(q) ==
    [id |-> q.id, question |-> q.question, answer |-> q.answer,
     category |-> q.category, difficulty |-> q.difficulty]

(***************************************************************************)
(* paginate_questions                                                      *)
(***************************************************************************)
QUESTIONS_PER_PAGE == 10

\* paginate_questions with the page counted from 0: start = page * QUESTIONS_PER_PAGE
mutant_paginate_start(req, sel) ==
    LET page == ArgsGetInt(req.args, "page", 1)
        start == page * QUESTIONS_PER_PAGE
        end == start + QUESTIONS_PER_PAGE
        formatted == [k \in 1..Len(sel) |-> Format(sel[k])]
    IN PySlice(formatted, start, end)

paginate_questions(req, sel) ==
    LET page == ArgsGetInt(req.args, "page", 1)
        start == (page - 1) * QUESTIONS_PER_PAGE
        end == start + QUESTIONS_PER_PAGE
        formatted == [k \in 1..Len(sel) |-> Format(sel[k])]
    IN PySlice(formatted, start, end)

(***************************************************************************)
(* The seeded database (the rows the application finds when it starts).    *)
(***************************************************************************)
SeedTexts == << <<"A", "r", "t">>, <<"c", "a", "t">>, <<"T", "A", "R">>, <<"m", "a", "p">> >>

SeedRow(i) ==
    Question(i, JStr(SeedTexts[((i - 1) % Len(SeedTexts)) + 1]), JStr(<<"a">>),
             JInt(((i - 1) % 2) + 1), JInt(1))

SeedTable(n) == [i \in 1..n |-> SeedRow(i)]

SeedCategories == [i \in 1..NumCategories |-> IF i = 1 THEN <<"S">> ELSE <<"A">>]

NoArgs == [k \in {} |-> <<>>]

PageArgs ==
    {NoArgs} \cup {[page |-> IntStr(p)] : p \in (-MaxPage)..MaxPage}
            \cup {[page |-> <<"x">>], [page |-> <<>>]}

HasPage(req, p) == "page" \in DOMAIN req.args /\ req.args["page"] = IntStr(p)

(***************************************************************************)
(* The data access layer (models.py): queries, insert, delete.             *)
(***************************************************************************)
RECURSIVE SortedIds(_)
SortedIds(S) ==
    IF S = {} THEN <<>>
    ELSE LET m == CHOOSE x \in S : \A y \in S : x <= y IN <<m>> \o SortedIds(S \ {m})

\* Question.query.order_by(Question.id) restricted to the ids in S
OrderById(table, S) == LET ids == SortedIds(S) IN [k \in 1..Len(ids) |-> table[ids[k]]]

\* Question.query.filter(Question.category == category_id): a NULL category matches nothing
CategoryIds(table, category_id) ==
    {i \in DOMAIN table : table[i].category.type = "int" /\ table[i].category.val = category_id}

\* Question.insert(): question and answer are required texts (a missing one violates the
\* constraint); category and difficulty are integers or NULL.  A JSON object given for a
\* column cannot be stored.  A row that breaks any of this makes the insert raise.
Insertable(row) ==
    /\ row.question.type = "string"
    /\ row.answer.type = "string"
    /\ row.category.type \in {"int", "null"}
    /\ row.difficulty.type \in {"int", "null"}

InsertRow(table, row) == [i \in DOMAIN table \cup {row.id} |-> IF i = row.id THEN row ELSE table[i]]

\* Question.delete()
DeleteRow(table, id) == [i \in DOMAIN table \ {id} |-> table[i]]

(***************************************************************************)
(* What a view function does: return a JSON body, return nothing, or raise.*)
(***************************************************************************)
Return(body) == [kind |-> "return", body |-> body]
ReturnNone == [kind |-> "none"]
Abort(code) == [kind |-> "raise", exc |-> "HTTPException", code |-> code]
Raise(exc) == [kind |-> "raise", exc |-> exc, code |-> 500]

\* try: ... except BaseException: abort(code)
ExceptAbort(outcome, code) == IF outcome.kind = "raise" THEN Abort(code) ELSE outcome

ErrorMessage(code) ==
    CASE code = 400 -> "Bad Request"
      [] code = 404 -> "Not Found"
      [] code = 405 -> "Method not allowed"
      [] code = 422 -> "Unprocessable"
      [] OTHER -> "Internal server error"

ErrorEnvelope(code) ==
    [status |-> code, body |-> [success |-> FALSE, error |-> code, message |-> ErrorMessage(code)]]

\* Flask's dispatch: a returned body is a 200; an HTTPException goes to its error handler;
\* any other exception, and a view that returns None, is a 500.
Dispatch(outcome) ==
    CASE outcome.kind = "return" -> [status |-> 200, body |-> outcome.body]
      [] outcome.kind = "raise" /\ outcome.exc = "HTTPException" -> ErrorEnvelope(outcome.code)
      [] OTHER -> ErrorEnvelope(500)

BodyGet(body, key) == IF key \in DOMAIN body THEN body[key] ELSE JNull

(***************************************************************************)
(* GET /questions  (the body's 'current category' key is current_category  *)
(* here)                                                                   *)
(***************************************************************************)
\* retrieve_questions with total_questions counted on the page, not on the table
mutant_retrieve_questions_total(req, table, cats) ==
    LET sel == OrderById(table, DOMAIN table)
        page == paginate_questions(req, sel)
    IN IF Len(page) = 0 THEN Abort(404)
       ELSE Return([success |-> TRUE, questions |-> page,
                    total_questions |-> Len(page),
                    current_category |-> JNull, categories |-> cats])

retrieve_questions(req, table, cats) ==
    LET sel == OrderById(table, DOMAIN table)
        page == paginate_questions(req, sel)
    IN IF Len(page) = 0 THEN Abort(404)
       ELSE Return([success |-> TRUE, questions |-> page,
                    total_questions |-> Cardinality(DOMAIN table),
                    current_category |-> JNull, categories |-> cats])

(***************************************************************************)
(* GET /categories                                                         *)
(***************************************************************************)
retrive_categories(cats) ==
    IF Cardinality(DOMAIN cats) = 0 THEN Abort(404)
    ELSE Return([success |-> TRUE, categories |-> cats,
                 total_categories |-> Cardinality(DOMAIN cats)])

(***************************************************************************)
(* GET /categories/<category_id>/questions                                 *)
(***************************************************************************)
retrieve_questions_by_category(req, category_id, table) ==
    LET ids == CategoryIds(table, category_id)
        page == paginate_questions(req, OrderById(table, ids))
        try == IF Len(page) = 0 THEN Abort(404)
               ELSE Return([success |-> TRUE, questions |-> page,
                            total_questions |-> Cardinality(ids),
                            current_category |-> category_id])
    IN ExceptAbort(try, 422)

(***************************************************************************)
(* DELETE /questions/<question_id>                                         *)
(***************************************************************************)
\* delete_question without the question.delete() call
mutant_delete_keeps_row(question_id, table) ==
    LET try == IF question_id \notin DOMAIN table
               THEN [out |-> Abort(404), table |-> table]
               ELSE [out |-> Return([success |-> TRUE, deleted |-> Format(table[question_id]),
                                     deleted_id |-> question_id]),
                     table |-> table]
    IN [out |-> ExceptAbort(try.out, 422), table |-> try.table]

\* delete_question with abort(404) outside the try: the 404 reaches the client
mutant_delete_404(question_id, table) ==
    IF question_id \notin DOMAIN table
    THEN [out |-> Abort(404), table |-> table]
    ELSE [out |-> Return([success |-> TRUE, deleted |-> Format(table[question_id]),
                          deleted_id |-> question_id]),
          table |-> DeleteRow(table, question_id)]

delete_question(question_id, table) ==
    LET try == IF question_id \notin DOMAIN table
               THEN [out |-> Abort(404), table |-> table]
               ELSE [out |-> Return([success |-> TRUE, deleted |-> Format(table[question_id]),
                                     deleted_id |-> question_id]),
                     table |-> DeleteRow(table, question_id)]
    IN [out |-> ExceptAbort(try.out, 422), table |-> try.table]

(***************************************************************************)
(* POST /questions/add                                                     *)
(***************************************************************************)
\* new_question without the except clause: a failed insert surfaces as a 500
mutant_new_question_uncaught(body, table, nid) ==
    LET row == Question(nid, BodyGet(body, "question"), BodyGet(body, "answer"),
                        BodyGet(body, "category"), BodyGet(body, "difficulty"))
    IN IF Insertable(row)
       THEN [out |-> Return([success |-> TRUE, created |-> nid]),
             table |-> InsertRow(table, row), nid |-> nid + 1]
       ELSE [out |-> Raise("StatementError"), table |-> table, nid |-> nid]

new_question(body, table, nid) ==
    LET row == Question(nid, BodyGet(body, "question"), BodyGet(body, "answer"),
                        BodyGet(body, "category"), BodyGet(body, "difficulty"))
        try == IF Insertable(row)
               THEN [out |-> Return([success |-> TRUE, created |-> nid]),
                     table |-> InsertRow(table, row), nid |-> nid + 1]
               ELSE [out |-> Raise("StatementError"), table |-> table, nid |-> nid]
    IN [out |-> ExceptAbort(try.out, 422), table |-> try.table, nid |-> try.nid]

(***************************************************************************)
(* POST /search                                                            *)
(***************************************************************************)
UpperCase == <<"A", "B", "C", "D", "E", "F", "G", "H", "I", "J", "K", "L", "M",
               "N", "O", "P", "Q", "R", "S", "T", "U", "V", "W", "X", "Y", "Z">>
LowerCase == <<"a", "b", "c", "d", "e", "f", "g", "h", "i", "j", "k", "l", "m",
               "n", "o", "p", "q", "r", "s", "t", "u", "v", "w", "x", "y", "z">>

LowerChar(c) ==
    IF \E k \in 1..26 : UpperCase[k] = c
    THEN LowerCase[CHOOSE k \in 1..26 : UpperCase[k] = c]
    ELSE c

Lower(s) == [k \in 1..Len(s) |-> LowerChar(s[k])]

\* '{}'.format(value)
StrFormat(v) ==
    CASE v.type = "string" -> v.val
      [] v.type = "int" -> IntStr(v.val)
      [] v.type = "null" -> <<"N", "o", "n", "e">>
      [] OTHER -> <<"{", "}">>

RECURSIVE LikeMatch(_, _)
\* SQL LIKE: % is any run of characters, _ any one character, \ escapes the next one.
LikeMatch(pat, text) ==
    IF pat = <<>> THEN text = <<>>
    ELSE IF Head(pat) = "%"
         THEN LikeMatch(Tail(pat), text) \/ (text # <<>> /\ LikeMatch(pat, Tail(text)))
    ELSE IF Head(pat) = "_"
         THEN text # <<>> /\ LikeMatch(Tail(pat), Tail(text))
    ELSE IF Head(pat) = "\\" /\ Len(pat) >= 2
         THEN text # <<>> /\ Head(text) = pat[2] /\ LikeMatch(Tail(Tail(pat)), Tail(text))
    ELSE text # <<>> /\ Head(text) = Head(pat) /\ LikeMatch(Tail(pat), Tail(text))

\* column.ilike(pattern): NULL matches nothing
ILike(column, pat) == column.type = "string" /\ LikeMatch(Lower(pat), Lower(column.val))

search_question(req, body, table) ==
    LET search == BodyGet(body, "searchTerm")
        pattern == <<"%">> \o StrFormat(search) \o <<"%">>
        ids == {i \in DOMAIN table : ILike(table[i].question, pattern)}
    IN Return([success |-> TRUE, questions |-> paginate_questions(req, OrderById(table, ids))])

(***************************************************************************)
(* POST /quizzes                                                           *)
(***************************************************************************)
JArray(seq) == [type |-> "array", val |-> seq]
QuizCategory(id) == [type |-> "object", id |-> id]

InList(x, list) == \E k \in 1..Len(list) : list[k] = x

\* the rows the quiz draws from: all of them for category 0, else those of the category
QuizCandidates(body, table) ==
    LET quiz_category == BodyGet(body, "quiz_category")
    IN IF quiz_category.type # "object" THEN {}
       ELSE IF quiz_category.id = 0 THEN DOMAIN table
       ELSE CategoryIds(table, quiz_category.id)

\* choice is what random.choice(questions) draws; the append to previous_questions
\* changes only the request's own list and is not kept
retrieve_quizzes(body, table, choice) ==
    LET quiz_category == BodyGet(body, "quiz_category")
        previous_questions == BodyGet(body, "previous_questions")
    IN IF quiz_category.type # "object" THEN Raise("TypeError")
       ELSE LET cands == QuizCandidates(body, table)
                try == IF cands # {} /\ previous_questions.type # "array" THEN Raise("TypeError")
                       ELSE LET new_questions == {i \in cands : ~InList(i, previous_questions.val)}
                            IN IF new_questions = {} THEN ReturnNone
                               ELSE Return([success |-> TRUE, question |-> Format(table[choice])])
            IN ExceptAbort(try, 404)

(***************************************************************************)
(* The requests.                                                           *)
(***************************************************************************)
Absent == [type |-> "absent"]

\* a JSON body: the keys whose value is not Absent
Body(fs) == [k \in {x \in DOMAIN fs : fs[x].type # "absent"} |-> fs[k]]

AddBodies ==
    {Body([question |-> q, answer |-> a, category |-> c, difficulty |-> JInt(1)]) :
        q \in {Absent, JObject, JStr(<<"a", "_", "t">>)}, a \in {Absent, JObject, JStr(<<"b">>)},
        c \in {Absent, JInt(1)}}

SearchTerms ==
    {Absent, JStr(<<>>), JStr(<<"a", "r", "t">>), JStr(<<"A">>), JStr(<<"z">>), JStr(<<"_", "_", "t">>)}

SearchArgs == {NoArgs, [page |-> <<"1">>], [page |-> <<"2">>]}

\* rows inserted and rows deleted since the app started
Changes == ((next_id - 1) - seeded) + ((next_id - 1) - Cardinality(DOMAIN questions))

InitApp(n) ==
    /\ questions = SeedTable(n)
    /\ next_id = n + 1
    /\ categories = SeedCategories
    /\ request = [route |-> "none"]
    /\ response = [status |-> 0]
    /\ selection = <<>>
    /\ current_questions = <<>>
    /\ pc = "serve"
    /\ seeded = n

Served(req, outcome) ==
    /\ pc = "serve"
    /\ request' = req
    /\ response' = Dispatch(outcome)
    /\ UNCHANGED <<categories, selection, current_questions, pc, seeded>>

RetrieveQuestions ==
    \E a \in PageArgs :
        LET req == [route |-> "retrieve_questions", args |-> a]
        IN /\ Served(req, retrieve_questions(req, questions, categories))
           /\ UNCHANGED <<questions, next_id>>

RetriveCategories ==
    /\ Served([route |-> "retrive_categories"], retrive_categories(categories))
    /\ UNCHANGED <<questions, next_id>>

RetrieveQuestionsByCategory ==
    \E a \in PageArgs, category_id \in 1..(NumCategories + 1) :
        LET req == [route |-> "retrieve_questions_by_category", args |-> a,
                    category_id |-> category_id]
        IN /\ Served(req, retrieve_questions_by_category(req, category_id, questions))
           /\ UNCHANGED <<questions, next_id>>

DeleteQuestion ==
    \E question_id \in 1..next_id :
        LET res == delete_question(question_id, questions)
        IN /\ res.table # questions => Changes < MaxChanges
           /\ Served([route |-> "delete_question", question_id |-> question_id], res.out)
           /\ questions' = res.table
           /\ UNCHANGED next_id

NewQuestion ==
    \E body \in AddBodies :
        LET res == new_question(body, questions, next_id)
        IN /\ res.table # questions => Changes < MaxChanges
           /\ Served([route |-> "new_question", json |-> body], res.out)
           /\ questions' = res.table
           /\ next_id' = res.nid

SearchQuestion ==
    \E a \in SearchArgs, term \in SearchTerms :
        LET req == [route |-> "search_question", args |-> a, json |-> Body([searchTerm |-> term])]
        IN /\ Served(req, search_question(req, req.json, questions))
           /\ UNCHANGED <<questions, next_id>>

QuizBodies ==
    {Body([quiz_category |-> c, previous_questions |-> prev]) :
        c \in {QuizCategory(id) : id \in 0..(NumCategories + 1)},
        prev \in {Absent} \cup {JArray(SortedIds(S)) : S \in SUBSET (1..(next_id - 1))}}

RetrieveQuizzes ==
    \E body \in QuizBodies :
        \E choice \in IF QuizCandidates(body, questions) = {} THEN {0}
                      ELSE QuizCandidates(body, questions) :
            /\ Served([route |-> "retrieve_quizzes", json |-> body],
                      retrieve_quizzes(body, questions, choice))
            /\ UNCHANGED <<questions, next_id>>

Init == \E n \in {0, SeedQuestions} : InitApp(n)

Next ==
    \/ RetrieveQuestions
    \/ RetriveCategories
    \/ DeleteQuestion
    \/ NewQuestion

Spec == Init /\ [][Next]_vars

NextCategory ==
    \/ RetrieveQuestionsByCategory
    \/ DeleteQuestion
    \/ NewQuestion

SpecCategory == Init /\ [][NextCategory]_vars

NextSearch ==
    \/ SearchQuestion
    \/ DeleteQuestion
    \/ NewQuestion

SpecSearch == Init /\ [][NextSearch]_vars

InitQuiz == InitApp(QuizSeed)

NextQuiz ==
    \/ RetrieveQuizzes
    \/ DeleteQuestion
    \/ NewQuestion

SpecQuiz == InitQuiz /\ [][NextQuiz]_vars

(***************************************************************************)
(* paginate_questions on its own: every sequence length, both orders,      *)
(* every page argument.                                                    *)
(***************************************************************************)
InitPaginate ==
    /\ questions = SeedTable(0)
    /\ next_id = 1
    /\ categories = SeedCategories
    /\ response = [status |-> 0]
    /\ request \in {[route |-> "paginate_questions", args |-> a] : a \in PageArgs}
    /\ \E n \in 0..MaxItems :
         selection \in {[k \in 1..n |-> SeedRow(k)], [k \in 1..n |-> SeedRow(n + 1 - k)]}
    /\ current_questions = <<>>
    /\ pc = "call"
    /\ seeded = 0

Paginate ==
    /\ pc = "call"
    /\ current_questions' = paginate_questions(request, selection)
    /\ pc' = "return"
    /\ UNCHANGED <<questions, next_id, categories, request, response, selection, seeded>>

NextPaginate == Paginate

SpecPaginate == InitPaginate /\ [][NextPaginate]_vars

\* The items of page p of a sequence, by offset: (p-1)*10 .. (p-1)*10+9, those that exist.
PageOf(sel, p) ==
    LET off == (p - 1) * 10
        m == Max(0, Min(10, Len(sel) - off))
    IN [k \in 1..m |-> Format(sel[off + k])]

LastPage(n) == (n + 9) \div 10

\* C3: for every page number p >= 1, paginate_questions returns exactly the items at
\* offsets (p-1)*10 .. (p-1)*10+9 that exist, in their original order, min(10, n-(p-1)*10)
\* of them when there are any; with no page parameter it behaves as p = 1.
C3_PageSlice ==
    pc = "return" =>
        /\ \A p \in 1..(MaxPage + 1) :
              HasPage(request, p) =>
                  /\ current_questions = PageOf(selection, p)
                  /\ current_questions # <<>> =>
                        Len(current_questions) = Min(10, Len(selection) - (p - 1) * 10)
        /\ "page" \notin DOMAIN request.args => current_questions = PageOf(selection, 1)

C3_Witness ==
    /\ pc = "return"
    /\ HasPage(request, 3)
    /\ Len(selection) = 23
    /\ Len(current_questions) = 3
    /\ current_questions[1].id = selection[21].id

\* C4: for every page number outside 1..ceil(n/10), zero and negative ones included,
\* paginate_questions returns the empty sequence.
C4_OutOfRangeEmpty ==
    pc = "return" =>
        \A p \in (-MaxPage - 1)..(MaxPage + 1) :
            (HasPage(request, p) /\ p \notin 1..LastPage(Len(selection))) =>
                current_questions = <<>>

(***************************************************************************)
(* Properties of the handlers.                                             *)
(***************************************************************************)
\* The page number a request asks for is p: given as such, or left out when p = 1.
AsksPage(req, p) == HasPage(req, p) \/ (p = 1 /\ "page" \notin DOMAIN req.args)

\* How many stored ids of S are at most i: the position of row i in ascending id order.
Rank(S, i) == Cardinality({j \in S : j <= i})

\* page is page p of the rows S of the table, in ascending id order
IsPageOf(page, p, S, table) ==
    /\ \A k \in 1..Len(page) : page[k].id \in S /\ page[k] = Format(table[page[k].id])
    /\ \A k \in 1..(Len(page) - 1) : page[k].id < page[k + 1].id
    /\ {page[k].id : k \in 1..Len(page)} =
           {i \in S : Rank(S, i) \in ((p - 1) * 10 + 1)..(p * 10)}

IsError(resp, code, message) ==
    /\ resp.status = code
    /\ resp.body.success = FALSE
    /\ resp.body.message = message

\* C5: GET /questions answers 404 with the error envelope when the page asked for lies
\* beyond the last page of the stored questions (also when none is stored), and otherwise
\* 200 with that page in ascending id order and total_questions = the number stored.
C5_ListQuestions ==
    request.route = "retrieve_questions" =>
        \A p \in 1..(MaxPage + 1) :
            AsksPage(request, p) =>
                IF p > LastPage(Cardinality(DOMAIN questions))
                THEN IsError(response, 404, "Not Found")
                ELSE /\ response.status = 200
                     /\ response.body.success = TRUE
                     /\ IsPageOf(response.body.questions, p, DOMAIN questions, questions)
                     /\ response.body.total_questions = Cardinality(DOMAIN questions)

C5_Witness ==
    /\ request.route = "retrieve_questions"
    /\ HasPage(request, 2)
    /\ Cardinality(DOMAIN questions) = 11
    /\ response.status = 200
    /\ Len(response.body.questions) = 1
    /\ response.body.total_questions = 11

\* C6: DELETE /questions/<id> of a stored id answers 200, success, deleted_id = id; the row
\* is gone afterwards, every other row and every category is as before.
C6_DeleteStored ==
    [][(request'.route = "delete_question" /\ request'.question_id \in DOMAIN questions) =>
          /\ response'.status = 200
          /\ response'.body.success = TRUE
          /\ response'.body.deleted_id = request'.question_id
          /\ request'.question_id \notin DOMAIN questions'
          /\ DOMAIN questions' = DOMAIN questions \ {request'.question_id}
          /\ \A i \in DOMAIN questions' : questions'[i] = questions[i]
          /\ categories' = categories]_vars

C6_Witness ==
    /\ request.route = "delete_question"
    /\ response.status = 200
    /\ response.body.deleted_id = request.question_id
    /\ request.question_id \notin DOMAIN questions
    /\ Cardinality(DOMAIN questions) = seeded - 1

\* C7: DELETE /questions/<id> of an id that is not stored (never added, or deleted before)
\* answers 422, success false, message 'Unprocessable', and leaves the store as it was.
C7_DeleteMissing ==
    [][(request'.route = "delete_question" /\ request'.question_id \notin DOMAIN questions) =>
          /\ IsError(response', 422, "Unprocessable")
          /\ questions' = questions]_vars

C7_Witness ==
    /\ request.route = "delete_question"
    /\ request.question_id < next_id
    /\ request.question_id \notin DOMAIN questions
    /\ response.status = 422
    /\ Cardinality(DOMAIN questions) = seeded - 1

IsText(v) == v.type = "string"

ContainsNoCase(text, term) ==
    \E k \in 0..(Len(text) - Len(term)) :
        Lower(SubSeq(text, k + 1, k + Len(term))) = Lower(term)

MatchingIds(table, term) ==
    {i \in DOMAIN table : IsText(table[i].question) /\ ContainsNoCase(table[i].question.val, term)}

\* C9: POST /search with a searchTerm answers success with the page asked for of exactly
\* the stored questions whose text contains the term, case-insensitively, in ascending id
\* order; with no match the list is empty and the answer still a success.
C9_SearchSubstring ==
    (request.route = "search_question" /\ IsText(BodyGet(request.json, "searchTerm"))) =>
        /\ response.status = 200
        /\ response.body.success = TRUE
        /\ \A p \in 1..2 :
              AsksPage(request, p) =>
                  IsPageOf(response.body.questions, p,
                           MatchingIds(questions, request.json["searchTerm"].val), questions)

\* C10: GET /categories/<id>/questions answers 404 whenever the page asked for of the
\* questions of that category is empty.
C10_CategoryNotFound ==
    request.route = "retrieve_questions_by_category" =>
        \A p \in 1..(MaxPage + 1) :
            (AsksPage(request, p)
                /\ p > LastPage(Cardinality(CategoryIds(questions, request.category_id)))) =>
                    IsError(response, 404, "Not Found")

IsQuiz(req) ==
    /\ req.route = "retrieve_quizzes"
    /\ BodyGet(req.json, "previous_questions").type = "array"

\* C1: a successful POST /quizzes answer never carries a question whose id is in the
\* previous_questions it was sent.
C1_QuizNoRepeat ==
    (IsQuiz(request) /\ response.status = 200) =>
        ~InList(response.body.question.id, request.json["previous_questions"].val)

\* C2: when every candidate question (all of them for category 0, else those of the
\* category; possibly none) is in previous_questions, POST /quizzes answers with a success
\* response, not an error.
C2_QuizExhausted ==
    (IsQuiz(request)
        /\ \A i \in QuizCandidates(request.json, questions) :
              InList(i, request.json["previous_questions"].val)) =>
            /\ response.status = 200
            /\ response.body.success = TRUE

====
